---- MODULE Spec2Model ----
(***************************************************************************)
(* Model of pkg/scheme (API type identity): the identity value types, the  *)
(* dotted-name and group/version parsers, and the preference-based kind    *)
(* resolver.  A Go string is a sequence of one-character strings; the      *)
(* empty Go string is the empty sequence.  Every exported function is an   *)
(* operator computed the way the Go code computes it, and every action of  *)
(* the specification is one call of one function by an idle caller: it     *)
(* records the function called (op), its arguments (args) and what it      *)
(* returned (ret); Return hands the result over and leaves the caller idle *)
(* again, ready for the next call.  Two objects live across calls: obj, a   *)
(* TypeMeta (package meta/v1), and fs, a flag set (package globalflag).     *)
(***************************************************************************)
EXTENDS Integers, Sequences, FiniteSets, TLC

VARIABLES op, args, ret, targets, obj, fs

vars == <<op, args, ret, targets, obj, fs>>

(***************************************************************************)
(* Bounds of the model.                                                     *)
(***************************************************************************)
\* longest string handed to a parser
MaxLen == 4
\* longest group or version handed to GroupVersion.String
MaxField == 2
\* longest preference list (GroupVersions)
MaxGvs == 3
\* longest candidate list (kinds)
MaxKinds == 2
\* longest group or version stamped on a TypeMeta
MaxTag == 1

\* the characters strings are made of: two letters and the two separators
Chars == {"a", "b", "/", "."}

StringsUpTo(n) == UNION {[1..k -> Chars] : k \in 0..n}

Strings == StringsUpTo(MaxLen)

Fields == StringsUpTo(MaxField)

\* groups, versions and kind names the resolver is exercised with
Groups == {<<>>, <<"a">>}

Versions == {<<"a">>, <<"b">>}

KindNames == {<<"a">>, <<"b">>}

SeqsUpTo(S, n) == UNION {[1..k -> S] : k \in 0..n}

(***************************************************************************)
(* Go values.                                                               *)
(***************************************************************************)
\* the nil pointer and the nil error
Nil == [nil |-> TRUE]

GroupVersion(g, v) == [Group |-> g, Version |-> v]

GroupVersionKind(g, v, k) == [Group |-> g, Version |-> v, Kind |-> k]

GroupVersionResource(g, v, r) == [Group |-> g, Version |-> v, Resource |-> r]

GroupKind(g, k) == [Group |-> g, Kind |-> k]

GroupResource(g, r) == [Group |-> g, Resource |-> r]

\* GroupVersion{} and GroupVersionKind{}: every field the empty string
ZeroGroupVersion == GroupVersion(<<>>, <<>>)

ZeroGroupVersionKind == GroupVersionKind(<<>>, <<>>, <<>>)

GVs == {GroupVersion(g, v) : g \in Groups, v \in Versions}

GVKs == {GroupVersionKind(g, v, k) : g \in Groups, v \in Versions, k \in KindNames}

(***************************************************************************)
(* The string functions of the Go library the code calls.  Indices are Go  *)
(* indices (from 0); Slice(s, lo, hi) is s[lo:hi].                          *)
(***************************************************************************)
Slice(s, lo, hi) == SubSeq(s, lo + 1, hi)

\* strings.Count(s, c) for a one-character c
RECURSIVE Count(_, _)
Count(s, c) ==
  IF s = <<>> THEN 0
  ELSE (IF Head(s) = c THEN 1 ELSE 0) + Count(Tail(s), c)

RECURSIVE IndexFrom(_, _, _)
IndexFrom(s, c, i) ==
  IF i >= Len(s) THEN -1
  ELSE IF s[i + 1] = c THEN i
  ELSE IndexFrom(s, c, i + 1)

\* strings.Index(s, c): the index of the first c in s, -1 when there is none
Index(s, c) == IndexFrom(s, c, 0)

\* strings.SplitN(s, c, n) for n > 0: at most n pieces, the last one the
\* unsplit remainder
RECURSIVE SplitN(_, _, _)
SplitN(s, c, n) ==
  LET i == Index(s, c) IN
  IF n = 1 \/ i = -1 THEN <<s>>
  ELSE <<Slice(s, 0, i)>> \o SplitN(Slice(s, i + 1, Len(s)), c, n - 1)

(***************************************************************************)
(* The dotted-name parsers.                                                 *)
(***************************************************************************)
ParseGroupKind(gk) ==
  LET i == Index(gk, ".") IN
  IF i = -1 THEN GroupKind(<<>>, gk)
  ELSE GroupKind(Slice(gk, i + 1, Len(gk)), Slice(gk, 0, i))

ParseGroupResource(gr) ==
  LET i == Index(gr, ".") IN
  IF i >= 0 THEN GroupResource(Slice(gr, i + 1, Len(gr)), Slice(gr, 0, i))
  ELSE GroupResource(<<>>, gr)

\* ParseResourceArg with strings.Split in place of strings.SplitN(.., 3):
\* the group stops at the third dot
ParseResourceArgSplitAll(arg) ==
  LET s == SplitN(arg, ".", Len(arg) + 1)
      gvr == IF Count(arg, ".") >= 2
             THEN GroupVersionResource(s[3], s[2], s[1])
             ELSE Nil
  IN [gvr |-> gvr, gr |-> ParseGroupResource(arg)]

\* returns (gvr, gr); gvr is Nil unless arg has two dots or more
ParseResourceArg(arg) ==
  LET s == SplitN(arg, ".", 3)
      gvr == IF Count(arg, ".") >= 2
             THEN GroupVersionResource(s[3], s[2], s[1])
             ELSE Nil
  IN [gvr |-> gvr, gr |-> ParseGroupResource(arg)]

\* returns (gvk, gk); gvk is Nil unless arg has two dots or more
ParseKindArg(arg) ==
  LET s == SplitN(arg, ".", 3)
      gvk == IF Count(arg, ".") >= 2
             THEN GroupVersionKind(s[3], s[2], s[1])
             ELSE Nil
  IN [gvk |-> gvk, gk |-> ParseGroupKind(arg)]

(***************************************************************************)
(* GroupVersion: rendering and parsing.                                     *)
(***************************************************************************)
\* GroupVersion.String without the legacy case of the empty group
GroupVersionStringAlwaysSlash(gv) == gv.Group \o <<"/">> \o gv.Version

GroupVersionString(gv) ==
  IF Len(gv.Group) > 0 THEN gv.Group \o <<"/">> \o gv.Version
  ELSE gv.Version

\* fmt.Errorf("unexpected GroupVersion string: %v", gv)
Errorf(gv) == [msg |-> "unexpected GroupVersion string", arg |-> gv]

\* ParseGroupVersion slicing gv[i:] for the version: the '/' stays in it
ParseGroupVersionKeepSlash(gv) ==
  IF Len(gv) = 0 \/ gv = <<"/">> THEN [gv |-> ZeroGroupVersion, err |-> Nil]
  ELSE LET n == Count(gv, "/") IN
       IF n = 0 THEN [gv |-> GroupVersion(<<>>, gv), err |-> Nil]
       ELSE IF n = 1
       THEN LET i == Index(gv, "/") IN
            [gv |-> GroupVersion(Slice(gv, 0, i), Slice(gv, i, Len(gv))),
             err |-> Nil]
       ELSE [gv |-> ZeroGroupVersion, err |-> Errorf(gv)]

\* ParseGroupVersion splitting at the first '/' however many there are
ParseGroupVersionLenient(gv) ==
  IF Len(gv) = 0 \/ gv = <<"/">> THEN [gv |-> ZeroGroupVersion, err |-> Nil]
  ELSE LET i == Index(gv, "/") IN
       IF i = -1 THEN [gv |-> GroupVersion(<<>>, gv), err |-> Nil]
       ELSE [gv |-> GroupVersion(Slice(gv, 0, i), Slice(gv, i + 1, Len(gv))),
             err |-> Nil]

\* returns (gv, err); err is Nil on success
ParseGroupVersion(gv) ==
  IF Len(gv) = 0 \/ gv = <<"/">> THEN [gv |-> ZeroGroupVersion, err |-> Nil]
  ELSE LET n == Count(gv, "/") IN
       IF n = 0 THEN [gv |-> GroupVersion(<<>>, gv), err |-> Nil]
       ELSE IF n = 1
       THEN LET i == Index(gv, "/") IN
            [gv |-> GroupVersion(Slice(gv, 0, i), Slice(gv, i + 1, Len(gv))),
             err |-> Nil]
       ELSE [gv |-> ZeroGroupVersion, err |-> Errorf(gv)]

WithKind(gv, kind) == GroupVersionKind(gv.Group, gv.Version, kind)

GroupVersionKindEmpty(gvk) ==
  Len(gvk.Group) = 0 /\ Len(gvk.Version) = 0 /\ Len(gvk.Kind) = 0

\* returns (apiVersion, kind)
ToAPIVersionAndKind(gvk) ==
  IF GroupVersionKindEmpty(gvk) THEN [apiVersion |-> <<>>, kind |-> <<>>]
  ELSE [apiVersion |-> GroupVersionString(GroupVersion(gvk.Group, gvk.Version)),
        kind |-> gvk.Kind]

FromAPIVersionAndKind(apiVersion, kind) ==
  LET r == ParseGroupVersion(apiVersion) IN
  IF r.err = Nil THEN GroupVersionKind(r.gv.Group, r.gv.Version, kind)
  ELSE GroupVersionKind(<<>>, <<>>, kind)

(***************************************************************************)
(* TypeMeta: the serialization tag carrier.  It stores a group-version-kind *)
(* as two strings.                                                          *)
(***************************************************************************)
TypeMeta(apiVersion, kind) == [APIVersion |-> apiVersion, Kind |-> kind]

\* TypeMeta{}
ZeroTypeMeta == TypeMeta(<<>>, <<>>)

\* SetGroupVersionKind leaving the carrier alone for the empty kind
SetGroupVersionKindSkipEmpty(o, gvk) ==
  IF GroupVersionKindEmpty(gvk) THEN o
  ELSE TypeMeta(ToAPIVersionAndKind(gvk).apiVersion, ToAPIVersionAndKind(gvk).kind)

\* func (obj *TypeMeta) SetGroupVersionKind(gvk): the carrier afterwards
SetGroupVersionKind(o, gvk) ==
  LET r == ToAPIVersionAndKind(gvk) IN
  [o EXCEPT !.APIVersion = r.apiVersion, !.Kind = r.kind]

\* func (obj *TypeMeta) GroupVersionKind()
TypeMeta_GroupVersionKind(o) == FromAPIVersionAndKind(o.APIVersion, o.Kind)

SetAPIVersion(o, version) == [o EXCEPT !.APIVersion = version]

SetKind(o, kind) == [o EXCEPT !.Kind = kind]

\* groups and versions stamped on a TypeMeta, api-versions written to it
TagFields == StringsUpTo(MaxTag)

ApiVersions == StringsUpTo(MaxTag + 1)

(***************************************************************************)
(* The flag set AddGlobalFlags registers against (github.com/spf13/pflag):  *)
(* formal holds the registered flags, one per name, and shorthands the      *)
(* one-letter names taken.  A registration returns the flag set afterwards  *)
(* and the panic it raised, Nil when it returned normally.                  *)
(***************************************************************************)
NewFlagSet == [formal |-> {}, shorthands |-> {}]

BoolFlag(name, shorthand, value, usage) ==
  [Name |-> name, Shorthand |-> shorthand, DefValue |-> value,
   Usage |-> usage, Type |-> "bool"]

Panic(msg, what) == [msg |-> msg, what |-> what]

\* fs.BoolP(name, shorthand, value, usage): the name must be new, then the
\* flag is added, then the shorthand, if any, must be one letter and new
BoolP(f, name, shorthand, value, usage) ==
  IF \E x \in f.formal : x.Name = name
  THEN [fs |-> f, panic |-> Panic("flag redefined", name)]
  ELSE LET g == [f EXCEPT !.formal = @ \cup {BoolFlag(name, shorthand, value, usage)}] IN
       IF shorthand = "" THEN [fs |-> g, panic |-> Nil]
       ELSE IF Len(shorthand) > 1
       THEN [fs |-> g, panic |-> Panic("shorthand is more than one ASCII character", shorthand)]
       ELSE IF \E s \in g.shorthands : s.c = shorthand
       THEN [fs |-> g, panic |-> Panic("shorthand redefined", shorthand)]
       ELSE [fs |-> [g EXCEPT !.shorthands = @ \cup {[c |-> shorthand, name |-> name]}],
             panic |-> Nil]

\* fmt.Sprintf(format, name)
Sprintf(format, name) == [format |-> format, arg |-> name]

\* func AddGlobalFlags(fs, name): two registrations of "help", the first
\* with the usage text in Chinese; a panic of the first ends the call
AddGlobalFlags(f, name) ==
  LET first == BoolP(f, "help", "h", FALSE, Sprintf("(zh) help for %s", name)) IN
  IF first.panic # Nil THEN first
  ELSE BoolP(first.fs, "help", "h", FALSE, Sprintf("help for %s", name))

\* the flags a component registers itself, and the component names
FlagNames == {"help", "version", "config"}

Shorthands == {"", "h", "v", "c"}

ComponentNames == {"apiserver", "ctl"}

(***************************************************************************)
(* The preference-based kind resolver.  A result is (target, ok).           *)
(***************************************************************************)
\* the second loop returning the candidate as it is, under its own version
RECURSIVE GroupPassOwnVersion(_, _, _)
GroupPassOwnVersion(gv, kinds, i) ==
  IF i > Len(kinds) THEN [target |-> ZeroGroupVersionKind, ok |-> FALSE]
  ELSE IF kinds[i].Group = gv.Group THEN [target |-> kinds[i], ok |-> TRUE]
  ELSE GroupPassOwnVersion(gv, kinds, i + 1)

\* the second loop of the probe, from kinds[i] on: the first candidate of
\* gv's group, with gv's version in place of its own
RECURSIVE GroupPass(_, _, _)
GroupPass(gv, kinds, i) ==
  IF i > Len(kinds) THEN [target |-> ZeroGroupVersionKind, ok |-> FALSE]
  ELSE IF kinds[i].Group = gv.Group
  THEN [target |-> WithKind(gv, kinds[i].Kind), ok |-> TRUE]
  ELSE GroupPass(gv, kinds, i + 1)

\* the first loop comparing the version alone
RECURSIVE ExactPassVersionOnly(_, _, _)
ExactPassVersionOnly(gv, kinds, i) ==
  IF i > Len(kinds) THEN GroupPass(gv, kinds, 1)
  ELSE IF kinds[i].Version = gv.Version THEN [target |-> kinds[i], ok |-> TRUE]
  ELSE ExactPassVersionOnly(gv, kinds, i + 1)

\* the first loop of the probe, from kinds[i] on: the first candidate of
\* gv's group and version; the second loop runs when it finds none
RECURSIVE ExactPass(_, _, _)
ExactPass(gv, kinds, i) ==
  IF i > Len(kinds) THEN GroupPass(gv, kinds, 1)
  ELSE IF kinds[i].Group = gv.Group /\ kinds[i].Version = gv.Version
  THEN [target |-> kinds[i], ok |-> TRUE]
  ELSE ExactPass(gv, kinds, i + 1)

\* func (gv GroupVersion) KindForGroupVersionKinds(kinds)
GroupVersion_KindForGroupVersionKinds(gv, kinds) == ExactPass(gv, kinds, 1)

\* the loop over gvs leaving at the first failed probe (break for continue)
RECURSIVE CollectUntilMiss(_, _, _)
CollectUntilMiss(gvs, kinds, i) ==
  IF i > Len(gvs) THEN <<>>
  ELSE LET r == GroupVersion_KindForGroupVersionKinds(gvs[i], kinds) IN
       IF r.ok THEN <<r.target>> \o CollectUntilMiss(gvs, kinds, i + 1)
       ELSE <<>>

\* the loop over gvs[i..]: the successful probes' targets, in order
RECURSIVE Collect(_, _, _)
Collect(gvs, kinds, i) ==
  IF i > Len(gvs) THEN <<>>
  ELSE LET r == GroupVersion_KindForGroupVersionKinds(gvs[i], kinds) IN
       (IF r.ok THEN <<r.target>> ELSE <<>>) \o Collect(gvs, kinds, i + 1)

\* the nested loops of bestMatch, at targets[i] and kinds[j]
RECURSIVE bestMatchFrom(_, _, _, _)
bestMatchFrom(kinds, tgts, i, j) ==
  IF i > Len(tgts) THEN tgts[1]
  ELSE IF j > Len(kinds) THEN bestMatchFrom(kinds, tgts, i + 1, 1)
  ELSE IF kinds[j] = tgts[i] THEN kinds[j]
  ELSE bestMatchFrom(kinds, tgts, i, j + 1)

\* bestMatch with its loops exchanged: the first element of kinds that is
\* a collected candidate
bestMatchKindsFirst(kinds, tgts) ==
  LET hit == {j \in DOMAIN kinds : \E i \in DOMAIN tgts : tgts[i] = kinds[j]} IN
  IF hit = {} THEN tgts[1]
  ELSE kinds[CHOOSE j \in hit : \A h \in hit : j <= h]

\* bestMatch without the scan: always the first collected candidate
bestMatchFirstFound(kinds, tgts) == tgts[1]

bestMatch(kinds, tgts) == bestMatchFrom(kinds, tgts, 1, 1)

\* func (gvs GroupVersions) KindForGroupVersionKinds(kinds), with the
\* final value of its local slice targets
GroupVersions_KindForGroupVersionKinds(gvs, kinds) ==
  LET tgts == Collect(gvs, kinds, 1) IN
  IF Len(tgts) = 1 THEN [target |-> tgts[1], ok |-> TRUE, targets |-> tgts]
  ELSE IF Len(tgts) > 1
  THEN [target |-> bestMatch(kinds, tgts), ok |-> TRUE, targets |-> tgts]
  ELSE [target |-> ZeroGroupVersionKind, ok |-> FALSE, targets |-> tgts]

(***************************************************************************)
(* The calls.                                                               *)
(***************************************************************************)
Init ==
  /\ op = "none"
  /\ args = Nil
  /\ ret = Nil
  /\ targets = <<>>
  /\ obj = ZeroTypeMeta
  /\ fs = NewFlagSet

CallParseResourceArg ==
  /\ op = "none"
  /\ UNCHANGED <<obj, fs>>
  /\ \E arg \in Strings :
      /\ op' = "ParseResourceArg"
      /\ args' = [arg |-> arg]
      /\ ret' = ParseResourceArg(arg)
      /\ targets' = <<>>

CallParseKindArg ==
  /\ op = "none"
  /\ UNCHANGED <<obj, fs>>
  /\ \E arg \in Strings :
      /\ op' = "ParseKindArg"
      /\ args' = [arg |-> arg]
      /\ ret' = ParseKindArg(arg)
      /\ targets' = <<>>

CallParseGroupVersion ==
  /\ op = "none"
  /\ UNCHANGED <<obj, fs>>
  /\ \E s \in Strings :
      /\ op' = "ParseGroupVersion"
      /\ args' = [gv |-> s]
      /\ ret' = ParseGroupVersion(s)
      /\ targets' = <<>>

CallGroupVersionString ==
  /\ op = "none"
  /\ UNCHANGED <<obj, fs>>
  /\ \E g \in Fields, v \in Fields :
      /\ op' = "GroupVersion.String"
      /\ args' = [gv |-> GroupVersion(g, v)]
      /\ ret' = GroupVersionString(GroupVersion(g, v))
      /\ targets' = <<>>

CallFromAPIVersionAndKind ==
  /\ op = "none"
  /\ UNCHANGED <<obj, fs>>
  /\ \E apiVersion \in Strings, kind \in KindNames \cup {<<>>} :
      /\ op' = "FromAPIVersionAndKind"
      /\ args' = [apiVersion |-> apiVersion, kind |-> kind]
      /\ ret' = FromAPIVersionAndKind(apiVersion, kind)
      /\ targets' = <<>>

CallGroupVersionKindFor ==
  /\ op = "none"
  /\ UNCHANGED <<obj, fs>>
  /\ \E gv \in GVs, kinds \in SeqsUpTo(GVKs, MaxKinds) :
      /\ op' = "GroupVersion.KindForGroupVersionKinds"
      /\ args' = [gv |-> gv, kinds |-> kinds]
      /\ ret' = GroupVersion_KindForGroupVersionKinds(gv, kinds)
      /\ targets' = <<>>

CallGroupVersionsKindFor ==
  /\ op = "none"
  /\ UNCHANGED <<obj, fs>>
  /\ \E gvs \in SeqsUpTo(GVs, MaxGvs), kinds \in SeqsUpTo(GVKs, MaxKinds) :
      LET r == GroupVersions_KindForGroupVersionKinds(gvs, kinds) IN
      /\ op' = "GroupVersions.KindForGroupVersionKinds"
      /\ args' = [gvs |-> gvs, kinds |-> kinds]
      /\ ret' = [target |-> r.target, ok |-> r.ok]
      /\ targets' = r.targets

\* the caller takes the result; nothing is kept between calls
Return ==
  /\ op # "none"
  /\ op' = "none"
  /\ args' = Nil
  /\ ret' = Nil
  /\ targets' = <<>>
  /\ UNCHANGED <<obj, fs>>

Next ==
  \/ CallParseResourceArg
  \/ CallParseKindArg
  \/ CallParseGroupVersion
  \/ CallGroupVersionString
  \/ CallFromAPIVersionAndKind
  \/ CallGroupVersionKindFor
  \/ CallGroupVersionsKindFor
  \/ Return

Spec == Init /\ [][Next]_vars

(***************************************************************************)
(* The calls on the TypeMeta obj.                                           *)
(***************************************************************************)
CallSetGroupVersionKind ==
  /\ op = "none"
  /\ \E g \in TagFields, v \in TagFields, k \in KindNames \cup {<<>>} :
      /\ op' = "TypeMeta.SetGroupVersionKind"
      /\ args' = [gvk |-> GroupVersionKind(g, v, k)]
      /\ obj' = SetGroupVersionKind(obj, GroupVersionKind(g, v, k))
      /\ ret' = Nil
  /\ UNCHANGED <<targets, fs>>

CallTypeMetaGroupVersionKind ==
  /\ op = "none"
  /\ op' = "TypeMeta.GroupVersionKind"
  /\ args' = [obj |-> obj]
  /\ ret' = TypeMeta_GroupVersionKind(obj)
  /\ UNCHANGED <<targets, obj, fs>>

CallSetAPIVersion ==
  /\ op = "none"
  /\ \E version \in ApiVersions :
      /\ op' = "TypeMeta.SetAPIVersion"
      /\ args' = [version |-> version]
      /\ obj' = SetAPIVersion(obj, version)
      /\ ret' = Nil
  /\ UNCHANGED <<targets, fs>>

CallSetKind ==
  /\ op = "none"
  /\ \E kind \in KindNames \cup {<<>>} :
      /\ op' = "TypeMeta.SetKind"
      /\ args' = [kind |-> kind]
      /\ obj' = SetKind(obj, kind)
      /\ ret' = Nil
  /\ UNCHANGED <<targets, fs>>

NextMeta ==
  \/ CallSetGroupVersionKind
  \/ CallTypeMetaGroupVersionKind
  \/ CallSetAPIVersion
  \/ CallSetKind
  \/ Return

SpecMeta == Init /\ [][NextMeta]_vars

(***************************************************************************)
(* The calls on the flag set fs.                                            *)
(***************************************************************************)
\* the component registers a flag of its own; it registers none twice
CallBoolP ==
  /\ op = "none"
  /\ \E name \in FlagNames, shorthand \in Shorthands, value \in BOOLEAN :
      LET r == BoolP(fs, name, shorthand, value, Sprintf("%s", name)) IN
      /\ r.panic = Nil
      /\ op' = "FlagSet.BoolP"
      /\ args' = [name |-> name, shorthand |-> shorthand, value |-> value]
      /\ fs' = r.fs
      /\ ret' = [panic |-> r.panic]
  /\ UNCHANGED <<targets, obj>>

\* args keeps the flag set the call was made on
CallAddGlobalFlags ==
  /\ op = "none"
  /\ \E name \in ComponentNames :
      LET r == AddGlobalFlags(fs, name) IN
      /\ op' = "AddGlobalFlags"
      /\ args' = [fs |-> fs, name |-> name]
      /\ fs' = r.fs
      /\ ret' = [panic |-> r.panic]
  /\ UNCHANGED <<targets, obj>>

NextFlags ==
  \/ CallBoolP
  \/ CallAddGlobalFlags
  \/ Return

SpecFlags == Init /\ [][NextFlags]_vars

(***************************************************************************)
(* Vocabulary of the properties, stated by position rather than by loop.   *)
(***************************************************************************)
MinOf(S) == CHOOSE i \in S : \A j \in S : i <= j

\* the positions of character c in string s
Positions(s, c) == {i \in DOMAIN s : s[i] = c}

Before(s, i) == SubSeq(s, 1, i - 1)

After(s, i) == SubSeq(s, i + 1, Len(s))

Between(s, i, j) == SubSeq(s, i + 1, j - 1)

\* the positions of the candidates of gv's group and version, of gv's group
ExactIn(gv, kinds) ==
  {j \in DOMAIN kinds : kinds[j].Group = gv.Group /\ kinds[j].Version = gv.Version}

GroupIn(gv, kinds) == {j \in DOMAIN kinds : kinds[j].Group = gv.Group}

Present(k, kinds) == \E j \in DOMAIN kinds : kinds[j] = k

Probing == op = "GroupVersion.KindForGroupVersionKinds"

Resolving == op = "GroupVersions.KindForGroupVersionKinds"

\* the positions of the preference list whose probe succeeds
Succeeding(gvs, kinds) ==
  {i \in DOMAIN gvs : GroupVersion_KindForGroupVersionKinds(gvs[i], kinds).ok}

\* the positions of the preference list with an exact match among kinds
ExactlyMatched(gvs, kinds) == {i \in DOMAIN gvs : ExactIn(gvs[i], kinds) # {}}

\* targets holds the successful probes' results, in preference order
CollectedInOrder ==
  LET S == Succeeding(args.gvs, args.kinds) IN
  /\ Len(targets) = Cardinality(S)
  /\ \A i \in S :
       targets[Cardinality({h \in S : h <= i})] =
         GroupVersion_KindForGroupVersionKinds(args.gvs[i], args.kinds).target

\* C1: with more than one collected candidate, the resolver returns the
\* first collected candidate (collected from the probes in preference
\* order) that is equal to some element of kinds, the first collected
\* candidate when none is, and ok = true either way.
C1_TieBreak ==
  (Resolving /\ Len(targets) > 1) =>
    LET P == {i \in DOMAIN targets : Present(targets[i], args.kinds)} IN
    /\ CollectedInOrder
    /\ ret.ok = TRUE
    /\ ret.target = IF P # {} THEN targets[MinOf(P)] ELSE targets[1]

\* two candidates collected, both present in kinds, in the opposite order
C1_Witness ==
  /\ Resolving
  /\ Len(targets) = 2
  /\ targets[1] # targets[2]
  /\ Len(args.kinds) = 2
  /\ args.kinds[1] = targets[2]
  /\ args.kinds[2] = targets[1]
  /\ ret.target = targets[1]

\* C2: the probe of gv returns the first candidate of gv's group and
\* version; failing that the first candidate of gv's group with gv's
\* version in place of its own; failing that the zero kind and ok = false.
C2_Probe ==
  Probing =>
    LET gv == args.gv
        kinds == args.kinds
        E == ExactIn(gv, kinds)
        G == GroupIn(gv, kinds)
    IN IF E # {} THEN ret = [target |-> kinds[MinOf(E)], ok |-> TRUE]
       ELSE IF G # {}
       THEN ret = [target |-> [Group |-> gv.Group, Version |-> gv.Version,
                               Kind |-> kinds[MinOf(G)].Kind],
                   ok |-> TRUE]
       ELSE ret = [target |-> ZeroGroupVersionKind, ok |-> FALSE]

\* no exact match, two candidates of the group with different kind names:
\* the first one's kind comes back under the receiver's version
C2_Witness ==
  /\ Probing
  /\ ExactIn(args.gv, args.kinds) = {}
  /\ Len(args.kinds) = 2
  /\ GroupIn(args.gv, args.kinds) = {1, 2}
  /\ args.kinds[1].Kind # args.kinds[2].Kind
  /\ ret.ok
  /\ ret.target.Version # args.kinds[1].Version

\* C3: when some group-version of the preference list has an exact match
\* in kinds, the resolver returns the first element of kinds of the group
\* and version of the earliest such group-version, with ok = true.
C3_ExactPreferred ==
  (Resolving /\ ExactlyMatched(args.gvs, args.kinds) # {}) =>
    LET gv == args.gvs[MinOf(ExactlyMatched(args.gvs, args.kinds))] IN
    /\ ret.ok = TRUE
    /\ ret.target = args.kinds[MinOf(ExactIn(gv, args.kinds))]

\* the most preferred group-version only matches by group (its candidate
\* is synthesized), a later one matches exactly, at the end of kinds
C3_Witness ==
  /\ Resolving
  /\ Len(targets) > 1
  /\ ~Present(targets[1], args.kinds)
  /\ ExactlyMatched(args.gvs, args.kinds) # {}
  /\ MinOf(ExactlyMatched(args.gvs, args.kinds)) > 1
  /\ Len(args.kinds) = 2
  /\ ret.target = args.kinds[2]
  /\ ret.target # args.kinds[1]

\* C4: the resolver returns ok = false exactly when no group-version of
\* the preference list has the group of an element of kinds, and then
\* returns the zero kind; when exactly one probe succeeds it returns that
\* probe's result with ok = true.
C4_NotFound ==
  Resolving =>
    LET gvs == args.gvs
        kinds == args.kinds
        S == Succeeding(gvs, kinds)
    IN /\ ret.ok = FALSE <=> (\A i \in DOMAIN gvs : GroupIn(gvs[i], kinds) = {})
       /\ ret.ok = FALSE => ret.target = ZeroGroupVersionKind
       /\ Cardinality(S) = 1 =>
            ret = [target |-> GroupVersion_KindForGroupVersionKinds(
                                gvs[MinOf(S)], kinds).target,
                   ok |-> TRUE]

\* a non-empty preference list and a non-empty kinds of disjoint groups
C4_Witness ==
  /\ Resolving
  /\ Len(args.gvs) > 1
  /\ Len(args.kinds) > 0
  /\ ret = [target |-> ZeroGroupVersionKind, ok |-> FALSE]

\* C5: ParseGroupVersion succeeds on every string with at most one '/':
\* without '/' the group is empty and the version the whole string; with
\* one '/' the group is the text before it and the version the text after
\* it; "" and "/" both give the fully-empty GroupVersion.
C5_ParseSucceeds ==
  (op = "ParseGroupVersion" /\ Cardinality(Positions(args.gv, "/")) <= 1) =>
    LET s == args.gv
        P == Positions(s, "/")
    IN /\ ret.err = Nil
       /\ P = {} => ret.gv = [Group |-> <<>>, Version |-> s]
       /\ \A i \in P :
            ret.gv = [Group |-> Before(s, i), Version |-> After(s, i)]
       /\ (s = <<>> \/ s = <<"/">>) => ret.gv = [Group |-> <<>>, Version |-> <<>>]

\* one '/' with text on both sides
C5_Witness ==
  /\ op = "ParseGroupVersion"
  /\ Cardinality(Positions(args.gv, "/")) = 1
  /\ ret.err = Nil
  /\ ret.gv.Group # <<>>
  /\ Len(ret.gv.Version) > 1

\* C6: ParseGroupVersion fails if and only if the string holds two '/' or
\* more, and then returns the fully-empty GroupVersion.
C6_ParseFails ==
  op = "ParseGroupVersion" =>
    /\ ret.err # Nil <=> Cardinality(Positions(args.gv, "/")) >= 2
    /\ ret.err # Nil => ret.gv = [Group |-> <<>>, Version |-> <<>>]

\* two '/' with text in front: the error, and nothing of the text returned
C6_Witness ==
  /\ op = "ParseGroupVersion"
  /\ Cardinality(Positions(args.gv, "/")) = 2
  /\ args.gv[1] # "/"
  /\ ret.err # Nil
  /\ ret.gv = ZeroGroupVersion

\* C7: for a group and a version without '/', parsing the rendering of
\* {group, version} gives {group, version} back without error; with an
\* empty group the rendering is the version itself.
C7_RoundTrip ==
  (/\ op = "GroupVersion.String"
   /\ Positions(args.gv.Group, "/") = {}
   /\ Positions(args.gv.Version, "/") = {}) =>
    /\ ParseGroupVersion(ret) = [gv |-> args.gv, err |-> Nil]
    /\ args.gv.Group = <<>> => ret = args.gv.Version

\* a non-empty group and a non-empty version, rendered with the '/'
C7_Witness ==
  /\ op = "GroupVersion.String"
  /\ Positions(args.gv.Group, "/") = {}
  /\ Positions(args.gv.Version, "/") = {}
  /\ Len(args.gv.Group) > 0
  /\ Len(args.gv.Version) > 0
  /\ Positions(ret, "/") = {Len(args.gv.Group) + 1}

\* the coarse form of arg: the name before the first '.', the group after
CoarseOf(arg) ==
  LET D == Positions(arg, ".") IN
  IF D = {} THEN [name |-> arg, group |-> <<>>]
  ELSE [name |-> Before(arg, MinOf(D)), group |-> After(arg, MinOf(D))]

\* the precise form of an arg with two dots or more
PreciseOf(arg) ==
  LET D == Positions(arg, ".")
      d1 == MinOf(D)
      d2 == MinOf(D \ {d1})
  IN [name |-> Before(arg, d1), version |-> Between(arg, d1, d2),
      group |-> After(arg, d2)]

\* C8: ParseResourceArg and ParseKindArg never fail; the coarse result is
\* the text before the first '.' and everything after it; the precise
\* result is present if and only if arg holds two '.' or more, and is then
\* the text before the first dot, the text between the first two dots and
\* everything after the second dot, further dots kept.
C8_ParseArg ==
  /\ op = "ParseResourceArg" =>
       LET arg == args.arg IN
       /\ ret.gr = [Group |-> CoarseOf(arg).group, Resource |-> CoarseOf(arg).name]
       /\ ret.gvr # Nil <=> Cardinality(Positions(arg, ".")) >= 2
       /\ ret.gvr # Nil =>
            ret.gvr = [Group |-> PreciseOf(arg).group,
                       Version |-> PreciseOf(arg).version,
                       Resource |-> PreciseOf(arg).name]
  /\ op = "ParseKindArg" =>
       LET arg == args.arg IN
       /\ ret.gk = [Group |-> CoarseOf(arg).group, Kind |-> CoarseOf(arg).name]
       /\ ret.gvk # Nil <=> Cardinality(Positions(arg, ".")) >= 2
       /\ ret.gvk # Nil =>
            ret.gvk = [Group |-> PreciseOf(arg).group,
                       Version |-> PreciseOf(arg).version,
                       Kind |-> PreciseOf(arg).name]

\* three dots: the precise group keeps the third one
C8_Witness ==
  /\ op = "ParseResourceArg"
  /\ Cardinality(Positions(args.arg, ".")) = 3
  /\ ret.gvr # Nil
  /\ Positions(ret.gvr.Group, ".") # {}
  /\ ret.gvr.Resource # <<>>

\* C9: every operation that parses a group-version string reports a string
\* with more than one '/' to its caller as a failure: ParseGroupVersion by
\* its error, FromAPIVersionAndKind by a result that no api-version with at
\* most one '/' gives for the same kind.
C9_FailureReported ==
  /\ (op = "ParseGroupVersion" /\ Cardinality(Positions(args.gv, "/")) > 1) =>
       ret.err # Nil
  /\ (op = "FromAPIVersionAndKind"
      /\ Cardinality(Positions(args.apiVersion, "/")) > 1) =>
       \A w \in Strings :
         Cardinality(Positions(w, "/")) <= 1 =>
           ret # FromAPIVersionAndKind(w, args.kind)

\* C10: a kind returned with ok = true has a (group, version) of the
\* preference list and the (group, kind) of some element of kinds, and is
\* itself an element of kinds unless no group-version of the preference
\* list has an exact match in kinds.
C10_ResultShape ==
  (Resolving /\ ret.ok) =>
    LET t == ret.target IN
    /\ \E i \in DOMAIN args.gvs :
         args.gvs[i] = [Group |-> t.Group, Version |-> t.Version]
    /\ \E j \in DOMAIN args.kinds :
         args.kinds[j].Group = t.Group /\ args.kinds[j].Kind = t.Kind
    /\ ~Present(t, args.kinds) => ExactlyMatched(args.gvs, args.kinds) = {}

\* a returned kind that is no element of kinds
C10_Witness ==
  /\ Resolving
  /\ ret.ok
  /\ Len(targets) > 1
  /\ ~Present(ret.target, args.kinds)
  /\ targets[2] # ret.target

\* the api-version a group and a version are stored as
StoredAs(g, v) == IF g = <<>> THEN v ELSE g \o <<"/">> \o v

\* C11: whatever the carrier held, after SetGroupVersionKind(gvk) with a
\* group and a version free of '/', GroupVersionKind() returns gvk, and so
\* does FromAPIVersionAndKind of gvk's ToAPIVersionAndKind; the carrier
\* then holds what gvk alone determines (the empty strings for the empty
\* gvk), nothing of what it held before.
C11_TagRoundTrip ==
  op = "TypeMeta.SetGroupVersionKind" =>
    LET gvk == args.gvk IN
    /\ obj = [APIVersion |-> StoredAs(gvk.Group, gvk.Version), Kind |-> gvk.Kind]
    /\ (Positions(gvk.Group, "/") = {} /\ Positions(gvk.Version, "/") = {}) =>
         /\ TypeMeta_GroupVersionKind(obj) = gvk
         /\ FromAPIVersionAndKind(ToAPIVersionAndKind(gvk).apiVersion,
                                  ToAPIVersionAndKind(gvk).kind) = gvk

\* a group, a version and a kind, stored as "group/version" and read back
C11_Witness ==
  /\ op = "TypeMeta.SetGroupVersionKind"
  /\ Positions(args.gvk.Group, "/") = {}
  /\ Positions(args.gvk.Version, "/") = {}
  /\ args.gvk.Group # <<>>
  /\ args.gvk.Version # <<>>
  /\ args.gvk.Kind # <<>>
  /\ Positions(obj.APIVersion, "/") # {}
  /\ TypeMeta_GroupVersionKind(obj) = args.gvk

\* C12: AddGlobalFlags on a flag set without a flag "help" and without the
\* shorthand "h" returns without a panic and leaves the flag set with one
\* more flag: the boolean "help", shorthand "h", default false.
C12_HelpRegistered ==
  (/\ op = "AddGlobalFlags"
   /\ \A x \in args.fs.formal : x.Name # "help" /\ x.Shorthand # "h") =>
    /\ ret.panic = Nil
    /\ \E u \in {fs.formal \ args.fs.formal} :
         /\ Cardinality(u) = 1
         /\ \A x \in u :
              /\ x.Name = "help"
              /\ x.Shorthand = "h"
              /\ x.DefValue = FALSE
              /\ x.Type = "bool"
    /\ args.fs.formal \subseteq fs.formal

====
